---- MODULE Spec2Model ----
(***************************************************************************)
(* Affinization of a finite crystal of affine type                         *)
(* (sage/combinat/crystals/affinization.py).                               *)
(*                                                                         *)
(* An element of the affinization is a pair b(m) of an element b of the    *)
(* base crystal B and an integer grade m.  The model constructs the        *)
(* affinization of a base crystal drawn from a small family, then walks    *)
(* the crystal graph with e_i / f_i and queries weight, equality and       *)
(* ordering of the element reached.                                        *)
(***************************************************************************)
EXTENDS Integers, Sequences, FiniteSets, TLC

\* Grades of elements built directly with A(b, m) lie in -MaxGrade..MaxGrade.
MaxGrade == 2
\* Longest index list handed to f_string.
MaxStr == 3
\* Most e_0 steps, and most f_0 steps, taken since the walk started.
MaxSteps == 2

(***************************************************************************)
(* Base crystals (the argument B of AffinizationOfCrystal.__init__).       *)
(*   K22   KirillovReshetikhin(['A',2,1], 2, 2), the crystal of the        *)
(*         doctests; its six tableaux are numbered in their sorted order   *)
(*         1 = [[1,1],[2,2]]  2 = [[1,1],[2,3]]  3 = [[1,2],[2,3]]         *)
(*         4 = [[1,1],[3,3]]  5 = [[1,2],[3,3]]  6 = [[2,2],[3,3]]         *)
(*   K11   KirillovReshetikhin(['A',2,1], 1, 1), letters 1, 2, 3           *)
(*   KT    a tensor product of two KR crystals B^{1,1} of type A_1^(1),    *)
(*         1 = 1(x)1, 2 = 1(x)2, 3 = 2(x)1, 4 = 2(x)2; it has two module   *)
(*         generators                                                      *)
(*   Letters   a finite crystal of finite (non affine) type                *)
(*   HW        an infinite highest weight crystal of affine type           *)
(*   BInf      an infinite crystal of finite type                          *)
(***************************************************************************)
BaseCrystals == {"K22", "K11", "KT", "Letters", "HW", "BInf"}

\* Infinity of sage.rings.infinity, as a cardinality.
Infinity == [inf |-> TRUE, n |-> 0]

\* B.cartan_type().is_affine()
is_affine(c) == c \in {"K22", "K11", "KT", "HW"}

\* B.cardinality()
cardinality(c) ==
    CASE c = "K22" -> [inf |-> FALSE, n |-> 6]
      [] c = "K11" -> [inf |-> FALSE, n |-> 3]
      [] c = "KT" -> [inf |-> FALSE, n |-> 4]
      [] c = "Letters" -> [inf |-> FALSE, n |-> 3]
      [] OTHER -> Infinity

\* The crystals the constructor accepts.
ValidCrystals == {c \in BaseCrystals : is_affine(c) /\ cardinality(c) # Infinity}

\* The elements of a finite base crystal; they are ordered by <.
Elems(c) == 1..cardinality(c).n

\* The index set of the Cartan type.
IndexSet(c) ==
    CASE c \in {"K22", "K11"} -> 0..2
      [] c \in {"KT", "HW"} -> 0..1
      [] OTHER -> 1..2

\* B.module_generators
Bgens(c) ==
    CASE c = "KT" -> <<1, 2>>
      [] OTHER -> <<1>>

\* The arrows b --i--> b' of the base crystal graph, as <<b, i, b'>>.
FEdges(c) ==
    CASE c = "K22" -> {<<1, 2, 2>>, <<2, 2, 4>>, <<3, 2, 5>>,
                       <<4, 1, 5>>, <<5, 1, 6>>, <<2, 1, 3>>,
                       <<6, 0, 3>>, <<3, 0, 1>>, <<5, 0, 2>>}
      [] c = "K11" -> {<<1, 1, 2>>, <<2, 2, 3>>, <<3, 0, 1>>}
      [] c = "KT" -> {<<1, 1, 3>>, <<3, 1, 4>>, <<4, 0, 2>>, <<2, 0, 1>>}
      [] OTHER -> {}

\* What a base crystal operator returns when it is undefined (None).
NoB == 0

\* self._b.f(i) in the base crystal
Bf(c, b, i) ==
    IF \E t \in FEdges(c) : t[1] = b /\ t[2] = i
    THEN (CHOOSE t \in FEdges(c) : t[1] = b /\ t[2] = i)[3]
    ELSE NoB

\* self._b.e(i) in the base crystal
Be(c, b, i) ==
    IF \E t \in FEdges(c) : t[3] = b /\ t[2] = i
    THEN (CHOOSE t \in FEdges(c) : t[3] = b /\ t[2] = i)[1]
    ELSE NoB

\* Coefficients of the base weights on Lambda[0], Lambda[1], ...
WtTable(c) ==
    CASE c = "K22" -> << <<-2, 0, 2>>, <<-1, 1, 0>>, <<0, -1, 1>>,
                         <<0, 2, -2>>, <<1, 0, -1>>, <<2, -2, 0>> >>
      [] c = "K11" -> << <<-1, 1, 0>>, <<0, -1, 1>>, <<1, 0, -1>> >>
      [] c = "KT" -> << <<-2, 2>>, <<0, 0>>, <<0, 0>>, <<2, -2>> >>
      [] OTHER -> << >>

\* self._b.weight(): the coefficient of each fundamental weight
Bweight(c, b) == [i \in IndexSet(c) |-> WtTable(c)[b][i + 1]]

\* self._b < other._b in the base crystal
Blt(b1, b2) == b1 < b2

(***************************************************************************)
(* Elements of the affinization.                                           *)
(***************************************************************************)
\* Element.__init__(parent, b, m)
Element(parent, b, m) == [kind |-> "Element", parent |-> parent, b |-> b, m |-> m]

\* The "no value" result of e and f.
None == [kind |-> "None", parent |-> "", b |-> 0, m |-> 0]

e_AlwaysInc(self, i) ==
    LET bp == Be(self.parent, self.b, i)
    IN IF bp = NoB THEN None ELSE Element(self.parent, bp, self.m + 1)

e_NoGrade(self, i) ==
    LET bp == Be(self.parent, self.b, i)
    IN IF bp = NoB THEN None ELSE Element(self.parent, bp, self.m)

\* Element.e(i)
e(self, i) ==
    LET bp == Be(self.parent, self.b, i)
    IN IF bp = NoB THEN None
       ELSE IF i = 0 THEN Element(self.parent, bp, self.m + 1)
       ELSE Element(self.parent, bp, self.m)

f_Inc(self, i) ==
    LET bp == Bf(self.parent, self.b, i)
    IN IF bp = NoB THEN None
       ELSE IF i = 0 THEN Element(self.parent, bp, self.m + 1)
       ELSE Element(self.parent, bp, self.m)

f_NoGrade(self, i) ==
    LET bp == Bf(self.parent, self.b, i)
    IN IF bp = NoB THEN None ELSE Element(self.parent, bp, self.m)

\* Element.f(i)
f(self, i) ==
    LET bp == Bf(self.parent, self.b, i)
    IN IF bp = NoB THEN None
       ELSE IF i = 0 THEN Element(self.parent, bp, self.m - 1)
       ELSE Element(self.parent, bp, self.m)

\* f_string of the crystal framework: apply f along the list and stop with
\* None at the first undefined step.
RECURSIVE f_string(_, _)
f_string(self, list) ==
    IF list = << >> THEN self
    ELSE LET b == f(self, Head(list))
         IN IF b = None THEN None ELSE f_string(b, Tail(list))

Eq_IgnoreGrade(self, other) ==
    IF other.kind # "Element" THEN FALSE
    ELSE self.parent = other.parent /\ self.b = other.b

\* Element.__eq__
Eq(self, other) ==
    IF other.kind # "Element" THEN FALSE
    ELSE self.parent = other.parent /\ self.b = other.b /\ self.m = other.m

\* Element.__ne__
Ne(self, other) == ~Eq(self, other)

Lt_BaseFirst(self, other) ==
    Blt(self.b, other.b) \/ (self.b = other.b /\ self.m < other.m)

\* Element.__lt__
Lt(self, other) ==
    self.m < other.m \/ (self.m = other.m /\ Blt(self.b, other.b))

(***************************************************************************)
(* The extended weight lattice: coefficients of the fundamental weights    *)
(* Lambda[i] and of delta.                                                 *)
(***************************************************************************)
\* The zero of the lattice (the empty WLR.sum).
WZero(c) == [La |-> [j \in IndexSet(c) |-> 0], delta |-> 0]

\* WLR.fundamental_weights()[i]
La(c, i) == [La |-> [j \in IndexSet(c) |-> IF j = i THEN 1 ELSE 0], delta |-> 0]

null_root_Zero(c) == WZero(c)

\* WLR.null_root()
null_root(c) == [La |-> [j \in IndexSet(c) |-> 0], delta |-> 1]

\* u + v
WAdd(u, v) == [La |-> [j \in DOMAIN u.La |-> u.La[j] + v.La[j]],
               delta |-> u.delta + v.delta]

\* k * u
WScale(k, u) == [La |-> [j \in DOMAIN u.La |-> k * u.La[j]], delta |-> k * u.delta]

\* u - v
WSub(u, v) == WAdd(u, WScale(-1, v))

\* WLR.sum(c*La[i] for i,c in wt), over the indices in S
RECURSIVE WSum(_, _, _)
WSum(c, wt, S) ==
    IF S = {} THEN WZero(c)
    ELSE LET i == CHOOSE j \in S : TRUE
         IN WAdd(WScale(wt[i], La(c, i)), WSum(c, wt, S \ {i}))

weight_NoDelta(self) ==
    WSum(self.parent, Bweight(self.parent, self.b), IndexSet(self.parent))

\* Element.weight()
weight(self) ==
    WAdd(WSum(self.parent, Bweight(self.parent, self.b), IndexSet(self.parent)),
         WScale(self.m, null_root(self.parent)))

(***************************************************************************)
(* State.                                                                  *)
(*   B                  the base crystal handed to the constructor         *)
(*   pc                 "new" before __init__ ran, then "ready" or "failed"*)
(*   err                the message of the ValueError raised, or ""        *)
(*   self_B             self._B, "" while unset                            *)
(*   module_generators  self.module_generators, << >> while unset          *)
(*   x                  the element the caller holds, None before it       *)
(*                      picked one                                         *)
(*   start, ups, downs, mono                                               *)
(*                      history of the walk: where it started, how many    *)
(*                      defined e_0 and f_0 steps it took, and whether it  *)
(*                      used only e ("e"), only f ("f"), both ("mixed") or *)
(*                      no step yet ("none")                               *)
(*   last               the last call and what it returned                 *)
(*   args               the two further elements of a pending three-way    *)
(*                      comparison, << >> when there is none               *)
(***************************************************************************)
VARIABLES B, pc, err, self_B, module_generators, x, start, ups, downs, mono, last, args

vars == <<B, pc, err, self_B, module_generators, x, start, ups, downs, mono, last, args>>

crystal == <<B, pc, err, self_B, module_generators>>
walk == <<x, start, ups, downs, mono>>

Grades == (-MaxGrade)..MaxGrade

\* tuple(map(mg_elt, B.module_generators)) with mg_elt = lambda b: Element(self, b, 0)
mg_tuple(c) == [k \in DOMAIN Bgens(c) |-> Element(c, Bgens(c)[k], 0)]

Init ==
    /\ B \in BaseCrystals
    /\ pc = "new"
    /\ err = ""
    /\ self_B = ""
    /\ module_generators = << >>
    /\ x = None
    /\ start = None
    /\ ups = 0
    /\ downs = 0
    /\ mono = "none"
    /\ last = [op |-> "none"]
    /\ args = << >>

Construct_NoFiniteCheck ==
    /\ pc = "new"
    /\ IF ~is_affine(B)
       THEN /\ pc' = "failed"
            /\ err' = "must be an affine crystal"
            /\ UNCHANGED <<self_B, module_generators>>
       ELSE /\ pc' = "ready"
            /\ self_B' = B
            /\ module_generators' = mg_tuple(B)
            /\ UNCHANGED err
    /\ last' = [op |-> "__init__"]
    /\ UNCHANGED <<B, walk, args>>

\* AffinizationOfCrystal.__init__(B)
Construct ==
    /\ pc = "new"
    /\ IF ~is_affine(B)
       THEN /\ pc' = "failed"
            /\ err' = "must be an affine crystal"
            /\ UNCHANGED <<self_B, module_generators>>
       ELSE IF cardinality(B) = Infinity
       THEN /\ pc' = "failed"
            /\ err' = "must be finite crystal"
            /\ UNCHANGED <<self_B, module_generators>>
       ELSE /\ pc' = "ready"
            /\ self_B' = B
            /\ module_generators' = mg_tuple(B)
            /\ UNCHANGED err
    /\ last' = [op |-> "__init__"]
    /\ UNCHANGED <<B, walk, args>>

\* The caller takes A.module_generators[k] and starts a walk from it.
Generator(k) ==
    /\ pc = "ready"
    /\ k \in DOMAIN module_generators
    /\ x' = module_generators[k]
    /\ start' = module_generators[k]
    /\ ups' = 0
    /\ downs' = 0
    /\ mono' = "none"
    /\ last' = [op |-> "module_generators", i |-> k, res |-> module_generators[k]]
    /\ UNCHANGED <<crystal, args>>

\* The caller builds A(b, m) and starts a walk from it.
NewElement(b, m) ==
    /\ pc = "ready"
    /\ b \in Elems(self_B)
    /\ m \in Grades
    /\ x' = Element(self_B, b, m)
    /\ start' = Element(self_B, b, m)
    /\ ups' = 0
    /\ downs' = 0
    /\ mono' = "none"
    /\ last' = [op |-> "element", res |-> Element(self_B, b, m)]
    /\ UNCHANGED <<crystal, args>>

\* The caller replaces x by x.e(i) when that is defined.
E(i) ==
    /\ pc = "ready"
    /\ x # None
    /\ i \in IndexSet(x.parent)
    /\ i = 0 => ups < MaxSteps
    /\ LET r == e(x, i)
       IN /\ last' = [op |-> "e", i |-> i, arg |-> x, res |-> r]
          /\ IF r = None
             THEN UNCHANGED walk
             ELSE /\ x' = r
                  /\ ups' = IF i = 0 THEN ups + 1 ELSE ups
                  /\ mono' = IF mono \in {"none", "e"} THEN "e" ELSE "mixed"
                  /\ UNCHANGED <<start, downs>>
    /\ UNCHANGED <<crystal, args>>

\* The caller replaces x by x.f(i) when that is defined.
F(i) ==
    /\ pc = "ready"
    /\ x # None
    /\ i \in IndexSet(x.parent)
    /\ i = 0 => downs < MaxSteps
    /\ LET r == f(x, i)
       IN /\ last' = [op |-> "f", i |-> i, arg |-> x, res |-> r]
          /\ IF r = None
             THEN UNCHANGED walk
             ELSE /\ x' = r
                  /\ downs' = IF i = 0 THEN downs + 1 ELSE downs
                  /\ mono' = IF mono \in {"none", "f"} THEN "f" ELSE "mixed"
                  /\ UNCHANGED <<start, ups>>
    /\ UNCHANGED <<crystal, args>>

\* Index lists of length at most n.
RECURSIVE Strings(_, _)
Strings(S, n) ==
    IF n = 0 THEN {<< >>}
    ELSE LET shorter == Strings(S, n - 1)
         IN shorter \cup {<<i>> \o s : i \in S, s \in {t \in shorter : Len(t) = n - 1}}

\* x.f_string(list)
FString(list) ==
    /\ pc = "ready"
    /\ x # None
    /\ last' = [op |-> "f_string", str |-> list, arg |-> x, res |-> f_string(x, list)]
    /\ UNCHANGED <<crystal, walk, args>>

\* x.weight()
Weight ==
    /\ pc = "ready"
    /\ x # None
    /\ last' = [op |-> "weight", arg |-> x, res |-> weight(x)]
    /\ UNCHANGED <<crystal, walk, args>>

\* Things x is compared with: the elements of its crystal, the element with
\* the same b and m in another affinization, None and a plain integer.
Others(self) ==
    {Element(self.parent, b, m) : b \in Elems(self.parent), m \in Grades}
    \cup {Element(c, self.b, self.m) :
            c \in {d \in ValidCrystals : d # self.parent /\ self.b \in Elems(d)}}
    \cup {None, [kind |-> "Integer", parent |-> self.parent, b |-> self.b, m |-> self.m]}

\* x == y and x != y
Compare(y) ==
    /\ pc = "ready"
    /\ x # None
    /\ y \in Others(x)
    /\ last' = [op |-> "cmp", arg |-> x, other |-> y, eq |-> Eq(x, y), ne |-> Ne(x, y)]
    /\ UNCHANGED <<crystal, walk, args>>

\* x < y, y < x, y < z, x < z and x == y for the pending y and z
Lt3 ==
    /\ pc = "ready"
    /\ x # None
    /\ args # << >>
    /\ LET y == args[1]
           z == args[2]
       IN last' = [op |-> "lt", arg |-> x, other |-> y, third |-> z,
                   xy |-> Lt(x, y), yx |-> Lt(y, x), yz |-> Lt(y, z),
                   xz |-> Lt(x, z), xx |-> Lt(x, x), eq |-> Eq(x, y)]
    /\ UNCHANGED <<crystal, walk, args>>

(***************************************************************************)
(* Spec: construction, then walks along e_i and f_i.                       *)
(***************************************************************************)
Next ==
    \/ Construct
    \/ \E k \in DOMAIN module_generators : Generator(k)
    \/ \E b \in Elems(self_B), m \in Grades : NewElement(b, m)
    \/ \E i \in IndexSet(self_B) : E(i)
    \/ \E i \in IndexSet(self_B) : F(i)

Spec == Init /\ [][Next]_vars

(***************************************************************************)
(* SpecQuery: the pure queries f_string, weight, == and != applied to an   *)
(* arbitrary element A(b, m) of an affinization.                           *)
(***************************************************************************)
InitQuery ==
    /\ B \in ValidCrystals
    /\ pc = "ready"
    /\ err = ""
    /\ self_B = B
    /\ module_generators = mg_tuple(B)
    /\ x \in {Element(B, b, m) : b \in Elems(B), m \in Grades}
    /\ start = x
    /\ ups = 0
    /\ downs = 0
    /\ mono = "none"
    /\ last = [op |-> "element", res |-> x]
    /\ args = << >>

NextQuery ==
    \/ \E list \in Strings(IndexSet(self_B), MaxStr) : FString(list)
    \/ Weight
    \/ \E y \in Others(x) : Compare(y)

SpecQuery == InitQuery /\ [][NextQuery]_vars

(***************************************************************************)
(* SpecOrd: x < y for three arbitrary elements of one affinization.        *)
(***************************************************************************)
InitOrd ==
    /\ B \in ValidCrystals
    /\ pc = "ready"
    /\ err = ""
    /\ self_B = B
    /\ module_generators = mg_tuple(B)
    /\ x \in {Element(B, b, m) : b \in Elems(B), m \in Grades}
    /\ start = x
    /\ ups = 0
    /\ downs = 0
    /\ mono = "none"
    /\ last = [op |-> "element", res |-> x]
    /\ args \in {<<Element(B, b1, m1), Element(B, b2, m2)>> :
                    b1 \in Elems(B), m1 \in Grades, b2 \in Elems(B), m2 \in Grades}

NextOrd == Lt3

SpecOrd == InitOrd /\ [][NextOrd]_vars

(***************************************************************************)
(* Properties.                                                             *)
(***************************************************************************)

\* C1: x.e(i) is defined iff e_i is defined on the base element b; when
\* defined the result is (e_i(b), m+1) for i = 0 and (e_i(b), m) for i # 0.
C1_RaiseContract ==
    last.op = "e" =>
        LET bp == Be(self_B, last.arg.b, last.i)
        IN /\ (last.res # None) <=> (bp # NoB)
           /\ last.res # None =>
                /\ last.res.kind = "Element"
                /\ last.res.parent = last.arg.parent
                /\ last.res.b = bp
                /\ last.res.m = last.arg.m + (IF last.i = 0 THEN 1 ELSE 0)

\* A defined e_0 step was taken and raised the grade by one.
C1_Witness ==
    /\ last.op = "e"
    /\ last.i = 0
    /\ last.res # None
    /\ last.res.m = last.arg.m + 1

\* C2: x.f(i) is defined iff f_i is defined on the base element b; when
\* defined the result is (f_i(b), m-1) for i = 0 and (f_i(b), m) for i # 0.
C2_LowerContract ==
    last.op = "f" =>
        LET bp == Bf(self_B, last.arg.b, last.i)
        IN /\ (last.res # None) <=> (bp # NoB)
           /\ last.res # None =>
                /\ last.res.kind = "Element"
                /\ last.res.parent = last.arg.parent
                /\ last.res.b = bp
                /\ last.res.m = last.arg.m - (IF last.i = 0 THEN 1 ELSE 0)

\* A defined f_0 step was taken and lowered the grade by one.
C2_Witness ==
    /\ last.op = "f"
    /\ last.i = 0
    /\ last.res # None
    /\ last.res.m = last.arg.m - 1

\* C3: inverse law.  If x.e(i) is defined then x.e(i).f(i) is defined and
\* == x, and if x.f(i) is defined then x.f(i).e(i) is defined and == x.
C3_Inverse ==
    /\ (last.op = "e" /\ last.res # None) =>
            LET back == f(last.res, last.i)
            IN back # None /\ Eq(back, last.arg) /\ ~Ne(back, last.arg)
    /\ (last.op = "f" /\ last.res # None) =>
            LET back == e(last.res, last.i)
            IN back # None /\ Eq(back, last.arg) /\ ~Ne(back, last.arg)

\* A defined e_0 step whose f_0 leads back to the element it came from.
C3_Witness ==
    /\ last.op = "e"
    /\ last.i = 0
    /\ last.res # None
    /\ Eq(f(last.res, 0), last.arg)

\* C4 as stated: whenever x.e(0) is defined, weight(x.e(0)) - weight(x) is
\* exactly the null root delta, no fundamental weight coefficient differs.
C4_Original ==
    (last.op = "e" /\ last.i = 0 /\ last.res # None) =>
        WSub(weight(last.res), weight(last.arg)) = null_root(self_B)

\* C4 amended: whenever x.e(0) is defined, the delta coefficient of
\* weight(x.e(0)) - weight(x) is exactly 1 and its fundamental weight
\* coefficients are those of wt(e_0 b) - wt(b) in the base crystal.
C4_WeightStep ==
    (last.op = "e" /\ last.i = 0 /\ last.res # None) =>
        LET d == WSub(weight(last.res), weight(last.arg))
        IN /\ d.delta = 1
           /\ d.La = [j \in IndexSet(self_B) |->
                        Bweight(self_B, last.res.b)[j] - Bweight(self_B, last.arg.b)[j]]

\* A defined e_0 step that changes fundamental weight coefficients as well.
C4_Witness ==
    /\ last.op = "e"
    /\ last.i = 0
    /\ last.res # None
    /\ WSub(weight(last.res), weight(last.arg)).delta = 1
    /\ WSub(weight(last.res), weight(last.arg)).La # WZero(self_B).La

\* C5: x < y iff m1 < m2, or m1 = m2 and b1 < b2 in the base ordering; <
\* is irreflexive and transitive, and exactly one of x < y, x == y, y < x
\* holds.
C5_Ordering ==
    last.op = "lt" =>
        LET p == last.arg
            q == last.other
        IN /\ last.xy <=> (p.m < q.m \/ (p.m = q.m /\ Blt(p.b, q.b)))
           /\ ~last.xx
           /\ (last.xy /\ last.yz) => last.xz
           /\ \/ last.xy /\ ~last.eq /\ ~last.yx
              \/ ~last.xy /\ last.eq /\ ~last.yx
              \/ ~last.xy /\ ~last.eq /\ last.yx

\* x < y was decided by the base ordering against it (equal grades, larger
\* base element) while y < z was decided by the grades alone.
C5_Witness ==
    /\ last.op = "lt"
    /\ last.arg.m = last.other.m
    /\ last.yx
    /\ last.other.m < last.third.m
    /\ last.third.b < last.other.b
    /\ last.yz
    /\ last.xz

\* C6: x == y iff y is an element of an affinization with the same parent,
\* the same b and the same m; a non element is never equal; != is the
\* negation of ==.
C6_Equality ==
    last.op = "cmp" =>
        /\ last.eq <=> /\ last.other.kind = "Element"
                       /\ last.other.parent = last.arg.parent
                       /\ last.other.b = last.arg.b
                       /\ last.other.m = last.arg.m
        /\ last.other.kind # "Element" => ~last.eq
        /\ last.ne <=> ~last.eq

\* An element was compared with one of the same b and the same parent but
\* another grade, and found different.
C6_Witness ==
    /\ last.op = "cmp"
    /\ last.other.kind = "Element"
    /\ last.other.parent = last.arg.parent
    /\ last.other.b = last.arg.b
    /\ last.other.m # last.arg.m
    /\ ~last.eq
    /\ last.ne

\* C7: construction fails iff B is not of affine type or is infinite; on
\* failure neither _B nor module_generators is set; on success _B is B and
\* module_generators is (g, 0) for each generator g of B, in B's order.
C7_Construction ==
    /\ pc # "new" => (pc = "failed" <=> (~is_affine(B) \/ cardinality(B) = Infinity))
    /\ pc = "failed" => (err # "" /\ self_B = "" /\ module_generators = << >>)
    /\ pc = "ready" =>
            /\ err = ""
            /\ self_B = B
            /\ Len(module_generators) = Len(Bgens(B))
            /\ \A k \in 1..Len(Bgens(B)) :
                    module_generators[k] = Element(B, Bgens(B)[k], 0)

\* Construction from an infinite crystal of affine type has failed.
C7_Witness ==
    /\ pc = "failed"
    /\ is_affine(B)
    /\ cardinality(B) = Infinity
    /\ self_B = ""

\* The base crystal's composition f_{i_k} ... f_{i_1} (b), NoB when a step
\* is undefined.
RECURSIVE Bf_string(_, _, _)
Bf_string(c, b, list) ==
    IF b = NoB THEN NoB
    ELSE IF list = << >> THEN b
    ELSE Bf_string(c, Bf(c, b, Head(list)), Tail(list))

\* The number of entries 0 in a list of indices.
Zeros(list) == Cardinality({k \in DOMAIN list : list[k] = 0})

\* C8: lowering (b, m) along i_1, ..., i_k gives None iff some step is
\* undefined on the base element reached so far, and otherwise (b', m - z)
\* with b' the base crystal's result and z the number of indices equal to 0.
C8_FStringShortCircuit ==
    last.op = "f_string" =>
        LET bb == Bf_string(self_B, last.arg.b, last.str)
        IN /\ (last.res = None) <=> (bb = NoB)
           /\ bb # NoB =>
                last.res = Element(last.arg.parent, bb, last.arg.m - Zeros(last.str))

\* The doctest: f_string([2,1,0]) takes the generator of grade 0 of K22 to
\* the same tableau at grade -1.
C8_Witness ==
    /\ last.op = "f_string"
    /\ last.arg = Element("K22", 1, 0)
    /\ last.str = <<2, 1, 0>>
    /\ last.res = Element("K22", 1, -1)

\* C9: weight() of (b, m) has the fundamental weight coefficients of wt(b)
\* and delta coefficient m.
C9_WeightFormula ==
    last.op = "weight" =>
        /\ last.res.La = Bweight(self_B, last.arg.b)
        /\ last.res.delta = last.arg.m

\* The weight of an element of negative grade and non zero base weight.
C9_Witness ==
    /\ last.op = "weight"
    /\ last.arg.m < 0
    /\ last.res.delta = last.arg.m
    /\ last.res.La # WZero(self_B).La

\* C10: along any walk the grade is the starting grade plus the number of
\* e_0 steps minus the number of f_0 steps; e_0 strictly raises and f_0
\* strictly lowers the grade; a walk of e steps only (or of f steps only)
\* that contains an index 0 step is not back at its starting element.
C10_Graded ==
    x # None =>
        /\ x.m = start.m + ups - downs
        /\ (last.op = "e" /\ last.i = 0 /\ last.res # None) => last.res.m > last.arg.m
        /\ (last.op = "f" /\ last.i = 0 /\ last.res # None) => last.res.m < last.arg.m
        /\ (mono = "e" /\ ups > 0) => (~Eq(x, start) /\ x.m > start.m)
        /\ (mono = "f" /\ downs > 0) => (~Eq(x, start) /\ x.m < start.m)

\* A walk of e steps only is back at the base element it started from, at
\* the largest grade the bounds allow.
C10_Witness ==
    /\ x # None
    /\ mono = "e"
    /\ x.b = start.b
    /\ ups = MaxSteps
    /\ x.m = start.m + MaxSteps

====
